---- MODULE Spec2Model ----
(***************************************************************************)
(* Model of nestedfunctions/functions/whitelist.py (WhitelistProcessor)    *)
(* and of the date formatter exercised by date_formatter_test.py.          *)
(*                                                                         *)
(* A string is a sequence of one-character strings; a dotted path is such  *)
(* a string with "." between the field names.  A schema is a tree, given   *)
(* as the set of its nodes, a node being the sequence of field names from  *)
(* the root.                                                               *)
(***************************************************************************)
EXTENDS Integers, Sequences, FiniteSets, TLC

VARIABLES
    pc,                       \* position of the running call
    schema,                   \* df.schema of the input data frame
    whitelist_columns,        \* WhitelistProcessor.whitelist_columns
    only_existing_columns,    \* find_fields_to_drop: only_existing_columns
    roots,                    \* __replace_elements_with_roots: roots not yet iterated
    res,                      \* __replace_elements_with_roots: res
    whitelist_parent_fields,  \* find_fields_to_drop: whitelist_parent_fields
    fields_to_drop,           \* the drop-set handed to drop_fields
    to_drop,                  \* drop_fields: elements the for loop has not yet visited
    idx,                      \* drop_fields: number of iterations done (idx + 1 of the last one)
    drop_calls,               \* drop_fields: path -> number of drop(df, path) calls
    force_calls,              \* drop_fields: the values of idx + 1 after which force_calculation ran
    df,                       \* the data frame: its flattened fields and whether rows are kept
    log,                      \* what was logged: no_fields, not_found, root_elements
    reinvoked,                \* TRUE in the second invocation with the same inputs
    prev,                     \* keep-roots and drop-set of the previous invocation
    total_drops,              \* drop calls over all invocations (history)
    custom_dimensions,        \* date test: the array of structs [index, value]
    transformed,              \* date test: the array after formatting
    predicate_value,          \* date test: predicate_value
    current_date_format       \* date test: current_date_format

dateVars == <<custom_dimensions, transformed, predicate_value, current_date_format>>

vars == <<pc, schema, whitelist_columns, only_existing_columns, roots, res,
          whitelist_parent_fields, fields_to_drop, to_drop, idx, drop_calls,
          force_calls, df, log, reinvoked, prev, total_drops,
          dateVars>>

----------------------------------------------------------------------------
(* Bounds *)

\* longest whitelist request
MaxW == 4

\* largest drop-set handed directly to drop_fields
MaxDrop == 11

\* longest array of structs in the date test
MaxArr == 3

----------------------------------------------------------------------------
(* Strings *)

Range(s) == {s[i] : i \in 1..Len(s)}

Min(a, b) == IF a <= b THEN a ELSE b

\* str.startswith: p is a textual prefix of s
IsPrefix(p, s) == Len(p) <= Len(s) /\ SubSeq(s, 1, Len(p)) = p

IsProperPrefix(p, s) == IsPrefix(p, s) /\ p # s

\* Python's `p in s` on strings: p occurs in s as a substring
StrIn(p, s) ==
    \E i \in 0..(Len(s) - Len(p)) : SubSeq(s, i + 1, i + Len(p)) = p

\* os.path.commonprefix([s, t]): the longest common leading run of characters
CommonPrefix(s, t) ==
    LET n == Min(Len(s), Len(t))
        k == CHOOSE k \in 0..n :
                /\ \A j \in 1..k : s[j] = t[j]
                /\ (k = n \/ s[k + 1] # t[k + 1])
    IN  SubSeq(s, 1, k)

----------------------------------------------------------------------------
(* Schemas and the collaborators of nestedfunctions that work on them *)

Dot == <<".">>

\* the dotted path of a node: its names joined by "."
RECURSIVE Dotted(_)
Dotted(node) ==
    IF Len(node) = 1 THEN node[1]
    ELSE Dotted(SubSeq(node, 1, Len(node) - 1)) \o Dot \o node[Len(node)]

\* SparkSchemaUtility.flatten_schema: every node, struct or leaf
FlattenSchema(s) == {Dotted(node) : node \in s}

\* SparkSchemaUtility.is_column_exist
IsColumnExist(s, field) == field \in FlattenSchema(s)

\* iterator_utils.distinct: first occurrences, in order
Distinct(fields) ==
    LET F[i \in 0..Len(fields)] ==
            IF i = 0 THEN <<>>
            ELSE IF \E j \in 1..(i - 1) : fields[j] = fields[i]
                 THEN F[i - 1]
                 ELSE Append(F[i - 1], fields[i])
    IN  F[Len(fields)]

\* nestedfunctions.functions.drop.drop on the flattened fields of a data
\* frame: the field goes, and with it everything nested under it
Drop(fields, field) ==
    {f \in fields : f # field /\ ~IsPrefix(field \o Dot, f)}

----------------------------------------------------------------------------
(* Inputs *)

A == <<"a">>
B == <<"b">>
C == <<"c">>
D == <<"d">>

\* {a: {b: {c}, c}, b: {c}, d}
UniverseSchema == {<<A>>, <<A, B>>, <<A, B, C>>, <<A, C>>, <<B>>, <<B, C>>, <<D>>}

\* {a: {b, c}, d}
ExampleSchema == {<<A>>, <<A, B>>, <<A, C>>, <<D>>}

\* {b: {c}}
SmallSchema == {<<B>>, <<B, C>>}

Schemas == {UniverseSchema, ExampleSchema, SmallSchema}

\* the paths a caller may ask for; those outside the schema at hand do not exist
RequestedPaths == FlattenSchema(UniverseSchema \ {<<A, C>>})

Whitelists == UNION {[1..n -> RequestedPaths] : n \in 0..MaxW}

----------------------------------------------------------------------------
(* whitelist.py *)

NUMBER_OF_ITERATIONS_TO_FORCE_CATALYST_FLUSH == 10

\* mutant of NoFieldsToSelect: only an empty request short-circuits
NoFieldsToSelectOnlyWhenEmpty(s, columns) == Range(columns) = {}

\* WhitelistProcessor.no_fields_to_select
NoFieldsToSelect(s, columns) ==
    LET flattened_fields == FlattenSchema(s)
    IN  (flattened_fields \ Range(columns)) = flattened_fields

\* mutant of FilterOnlyExistingFields: the existence test is missing
FilterOnlyExistingFieldsKeepsAll(s, fields) == Distinct(fields)

\* mutant of FilterOnlyExistingFields: distinct() is missing
FilterOnlyExistingFieldsNoDistinct(s, fields) ==
    LET F[i \in 0..Len(fields)] ==
            IF i = 0 THEN <<>>
            ELSE IF IsColumnExist(s, fields[i])
                 THEN Append(F[i - 1], fields[i])
                 ELSE F[i - 1]
    IN  F[Len(fields)]

\* WhitelistProcessor.__filter_only_existing_fields: the list returned
FilterOnlyExistingFields(s, fields) ==
    LET d == Distinct(fields)
        F[i \in 0..Len(d)] ==
            IF i = 0 THEN <<>>
            ELSE IF IsColumnExist(s, d[i])
                 THEN Append(F[i - 1], d[i])
                 ELSE F[i - 1]
    IN  F[Len(d)]

\* WhitelistProcessor.__filter_only_existing_fields: the fields logged as not found
FieldsNotFound(s, fields) ==
    {f \in Range(Distinct(fields)) : ~IsColumnExist(s, f)}

\* filter_only_parents_fields: common_elements, over itertools.combinations(fields, 2)
CommonElements(fields) ==
    LET combinations ==
            {c \in (1..Len(fields)) \X (1..Len(fields)) : c[1] < c[2]}
    IN  {CommonPrefix(fields[c[1]], fields[c[2]]) : c \in combinations} \ {<<>>}

\* filter_only_parents_fields: root_elements
RootElements(fields) == {f \in Range(fields) : f \in CommonElements(fields)}

\* mutant of ReplaceElementsWithRoot: the root is kept even when no element holds it
ReplaceElementsWithRootAlways(fields, root) ==
    LET F[i \in 0..Len(fields)] ==
            IF i = 0 THEN <<root>>
            ELSE IF StrIn(root, fields[i]) THEN F[i - 1]
                 ELSE Append(F[i - 1], fields[i])
    IN  F[Len(fields)]

\* __replace_elements_with_root
ReplaceElementsWithRoot(fields, root) ==
    LET F[i \in 0..Len(fields)] ==
            IF i = 0 THEN [res |-> <<>>, root_added |-> FALSE]
            ELSE LET p == F[i - 1]
                     f == fields[i]
                 IN  IF StrIn(root, f)
                     THEN IF ~p.root_added
                          THEN [res |-> Append(p.res, root), root_added |-> TRUE]
                          ELSE p
                     ELSE [res |-> Append(p.res, f), root_added |-> p.root_added]
    IN  F[Len(fields)].res

\* WhitelistProcessor.is_field_need_to_be_dropped
IsFieldNeedToBeDropped(field, parent_fields) ==
    \A parent_field \in parent_fields : ~StrIn(parent_field, field)

\* find_fields_to_drop: the set comprehension over all_fields
FieldsToDrop(s, parent_fields) ==
    {field \in FlattenSchema(s) : IsFieldNeedToBeDropped(field, parent_fields)}

\* __replace_elements_with_roots: the lists it can return, one per order in
\* which `for root in roots` may visit the set
RECURSIVE ReplaceElementsWithRootsOutcomes(_, _)
ReplaceElementsWithRootsOutcomes(fields, rts) ==
    IF rts = {} THEN {fields}
    ELSE UNION {ReplaceElementsWithRootsOutcomes(
                    ReplaceElementsWithRoot(fields, root), rts \ {root}) :
                root \in rts}

\* filter_only_parents_fields: the lists it can return
FilterOnlyParentsFieldsOutcomes(fields) ==
    ReplaceElementsWithRootsOutcomes(fields, RootElements(fields))

\* find_fields_to_drop: the keep-root sets (whitelist_parent_fields) it can reach
WhitelistParentFieldsOutcomes(s, columns) ==
    {Range(k) : k \in FilterOnlyParentsFieldsOutcomes(
                          FilterOnlyExistingFields(s, columns))}

\* find_fields_to_drop: the drop-sets it can return
FindFieldsToDropOutcomes(s, columns) ==
    {FieldsToDrop(s, k) : k \in WhitelistParentFieldsOutcomes(s, columns)}

\* mutant of TimeToForce: the counter of all drops so far, not of this call
TimeToForceGlobalCount(i) ==
    (total_drops + 1) % NUMBER_OF_ITERATIONS_TO_FORCE_CATALYST_FLUSH = 0

\* drop_fields: the test after the drop of enumerate index i
TimeToForce(i) == (i + 1) % NUMBER_OF_ITERATIONS_TO_FORCE_CATALYST_FLUSH = 0

----------------------------------------------------------------------------
(* whitelist(df, fields): WhitelistProcessor(fields).process(df) *)

NoCalls == [p \in {} |-> 0]

NoLog == [no_fields |-> FALSE, not_found |-> {}, root_elements |-> {}]

NoPrev == [keep |-> {}, drop |-> {}, rows |-> "all"]

\* the local state of a call before it starts
Fresh ==
    /\ only_existing_columns = <<>>
    /\ roots = {}
    /\ res = <<>>
    /\ whitelist_parent_fields = {}
    /\ fields_to_drop = {}
    /\ to_drop = {}
    /\ idx = 0
    /\ drop_calls = NoCalls
    /\ force_calls = {}
    /\ log = NoLog

DateIdle ==
    /\ custom_dimensions = <<>>
    /\ transformed = <<>>
    /\ predicate_value = 0
    /\ current_date_format = <<>>

Init ==
    /\ pc = "start"
    /\ schema \in Schemas
    /\ whitelist_columns \in Whitelists
    /\ df = [fields |-> FlattenSchema(schema), rows |-> "all"]
    /\ Fresh
    /\ reinvoked = FALSE
    /\ prev = NoPrev
    /\ total_drops = 0
    /\ DateIdle

\* process, lines 40-44: nothing to select, df.limit(0) is returned
ProcessEmpty ==
    /\ pc = "start"
    /\ NoFieldsToSelect(schema, whitelist_columns)
    /\ log' = [log EXCEPT !.no_fields = TRUE]
    /\ df' = [df EXCEPT !.rows = "zero"]
    /\ pc' = "done"
    /\ UNCHANGED <<schema, whitelist_columns, only_existing_columns, roots, res,
                   whitelist_parent_fields, fields_to_drop, to_drop, idx,
                   drop_calls, force_calls, reinvoked, prev, total_drops,
                   dateVars>>

\* process line 45, find_fields_to_drop line 50 and filter_only_parents_fields
\* up to the call of __replace_elements_with_roots
FindFieldsToDrop ==
    /\ pc = "start"
    /\ ~NoFieldsToSelect(schema, whitelist_columns)
    /\ LET existing == FilterOnlyExistingFields(schema, whitelist_columns)
       IN  /\ only_existing_columns' = existing
           /\ roots' = RootElements(existing)
           /\ res' = existing
           /\ log' = [log EXCEPT
                        !.not_found = FieldsNotFound(schema, whitelist_columns),
                        !.root_elements = RootElements(existing)]
    /\ pc' = "replace"
    /\ UNCHANGED <<schema, whitelist_columns, whitelist_parent_fields,
                   fields_to_drop, to_drop, idx, drop_calls, force_calls, df,
                   reinvoked, prev, total_drops,
                   dateVars>>

\* __replace_elements_with_roots: one iteration of `for root in roots`, a set,
\* so the roots come in no particular order
ReplaceElementsWithRoots ==
    /\ pc = "replace"
    /\ \E root \in roots :
         /\ res' = ReplaceElementsWithRoot(res, root)
         /\ roots' = roots \ {root}
    /\ UNCHANGED <<pc, schema, whitelist_columns, only_existing_columns,
                   whitelist_parent_fields, fields_to_drop, to_drop, idx,
                   drop_calls, force_calls, df, log, reinvoked, prev,
                   total_drops, dateVars>>

\* find_fields_to_drop lines 51-55, then process line 47 enters drop_fields
FindFieldsToDropReturn ==
    /\ pc = "replace"
    /\ roots = {}
    /\ whitelist_parent_fields' = Range(res)
    /\ fields_to_drop' = FieldsToDrop(schema, Range(res))
    /\ to_drop' = FieldsToDrop(schema, Range(res))
    /\ idx' = 0
    /\ pc' = "drop"
    /\ UNCHANGED <<schema, whitelist_columns, only_existing_columns, roots, res,
                   drop_calls, force_calls, df, log, reinvoked, prev,
                   total_drops, dateVars>>

\* drop_fields: one iteration of `for idx, field_to_drop in enumerate(fields_to_drop)`,
\* a set, so the fields come in no particular order
DropFields ==
    /\ pc = "drop"
    /\ \E field_to_drop \in to_drop :
         /\ to_drop' = to_drop \ {field_to_drop}
         /\ df' = [df EXCEPT !.fields = Drop(df.fields, field_to_drop)]
         /\ drop_calls' =
              [p \in DOMAIN drop_calls \cup {field_to_drop} |->
                  IF p = field_to_drop
                  THEN (IF p \in DOMAIN drop_calls THEN drop_calls[p] ELSE 0) + 1
                  ELSE drop_calls[p]]
    /\ force_calls' = IF TimeToForce(idx) THEN force_calls \cup {idx + 1}
                      ELSE force_calls
    /\ idx' = idx + 1
    /\ total_drops' = total_drops + 1
    /\ UNCHANGED <<pc, schema, whitelist_columns, only_existing_columns, roots,
                   res, whitelist_parent_fields, fields_to_drop, log, reinvoked,
                   prev, dateVars>>

\* drop_fields line 64: the loop is over, df is returned
DropFieldsReturn ==
    /\ pc = "drop"
    /\ to_drop = {}
    /\ pc' = "done"
    /\ UNCHANGED <<schema, whitelist_columns, only_existing_columns, roots, res,
                   whitelist_parent_fields, fields_to_drop, to_drop, idx,
                   drop_calls, force_calls, df, log, reinvoked, prev,
                   total_drops, dateVars>>

\* whitelist(df, fields) is called once more with the same df and fields
WhitelistAgain ==
    /\ pc = "done"
    /\ ~reinvoked
    /\ reinvoked' = TRUE
    /\ prev' = [keep |-> whitelist_parent_fields, drop |-> fields_to_drop,
                rows |-> df.rows]
    /\ pc' = "start"
    /\ df' = [fields |-> FlattenSchema(schema), rows |-> "all"]
    /\ only_existing_columns' = <<>>
    /\ roots' = {}
    /\ res' = <<>>
    /\ whitelist_parent_fields' = {}
    /\ fields_to_drop' = {}
    /\ to_drop' = {}
    /\ idx' = 0
    /\ drop_calls' = NoCalls
    /\ force_calls' = {}
    /\ log' = NoLog
    /\ UNCHANGED <<schema, whitelist_columns, total_drops,
                   dateVars>>

Next ==
    \/ ProcessEmpty
    \/ FindFieldsToDrop
    \/ ReplaceElementsWithRoots
    \/ FindFieldsToDropReturn
    \/ DropFields
    \/ DropFieldsReturn
    \/ WhitelistAgain

Spec == Init /\ [][Next]_vars

----------------------------------------------------------------------------
(* WhitelistProcessor.drop_fields(df, fields_to_drop), called on its own *)

\* n top-level fields a, aa, aaa, ...
FlatFields(n) == {[j \in 1..i |-> "a"] : i \in 1..n}

DropSets == {FlatFields(n) : n \in 0..MaxDrop}

InitDrop ==
    /\ pc = "drop"
    /\ fields_to_drop \in DropSets
    /\ to_drop = fields_to_drop
    /\ schema = {<<f>> : f \in FlatFields(MaxDrop)}
    /\ df = [fields |-> FlatFields(MaxDrop), rows |-> "all"]
    /\ whitelist_columns = <<>>
    /\ only_existing_columns = <<>>
    /\ roots = {}
    /\ res = <<>>
    /\ whitelist_parent_fields = {}
    /\ idx = 0
    /\ drop_calls = NoCalls
    /\ force_calls = {}
    /\ log = NoLog
    /\ reinvoked = FALSE
    /\ prev = NoPrev
    /\ total_drops = 0
    /\ DateIdle

\* drop_fields is called once more, on a fresh df and any drop-set
DropFieldsAgain ==
    /\ pc = "done"
    /\ ~reinvoked
    /\ reinvoked' = TRUE
    /\ fields_to_drop' \in DropSets
    /\ to_drop' = fields_to_drop'
    /\ df' = [fields |-> FlatFields(MaxDrop), rows |-> "all"]
    /\ idx' = 0
    /\ drop_calls' = NoCalls
    /\ force_calls' = {}
    /\ pc' = "drop"
    /\ UNCHANGED <<schema, whitelist_columns, only_existing_columns, roots, res,
                   whitelist_parent_fields, log, prev, total_drops,
                   dateVars>>

NextDrop ==
    \/ DropFields
    \/ DropFieldsReturn
    \/ DropFieldsAgain

SpecDrop == InitDrop /\ [][NextDrop]_vars

----------------------------------------------------------------------------
(* format_date and format_date_with_predicate, as date_formatter_test.py   *)
(* calls them on the array customDimensions of structs [index, value].     *)
(* A date string "2021-12-01" is the sequence of its numbers <<2021, 12,   *)
(* 1>>, a format "y-dd-MM" the sequence of its pattern letters.            *)

TargetFormat == <<"y", "M">>

CurrentFormats == {<<"y", "d", "M">>, <<"y", "M", "d">>}

\* the fixture date_formatting_on_nested_fields.json, as the test reads it
Fixture ==
    << [index |-> 2, value |-> <<2021, 12, 1>>],
       [index |-> 3, value |-> <<2019, 15, 2>>],
       [index |-> 4, value |-> <<2021, 15, 2>>] >>

DateValues == {<<2021, 12, 1>>, <<2019, 15, 2>>, <<2021, 15, 2>>, <<2021, 15, 15>>}

Elements == [index : {2, 3, 4}, value : DateValues]

Arrays == UNION {[1..n -> Elements] : n \in 0..MaxArr}

\* the number a value holds for a pattern letter of the format
DateField(value, format, letter) ==
    value[CHOOSE i \in 1..Len(format) : format[i] = letter]

\* a value parses under a format when it has a number per letter, a month and a day
Parses(value, format) ==
    /\ Len(value) = Len(format)
    /\ DateField(value, format, "M") \in 1..12
    /\ DateField(value, format, "d") \in 1..31

\* a value rewritten from one format to another; one that does not parse stays
Reformat(value, current, target) ==
    IF Parses(value, current)
    THEN [i \in 1..Len(target) |-> DateField(value, current, target[i])]
    ELSE value

\* mutant of FormatDateWithPredicateArray: the predicate is ignored
FormatDateWithPredicateArrayAll(array, current, target, key_value) ==
    [i \in 1..Len(array) |->
        [array[i] EXCEPT !.value = Reformat(array[i].value, current, target)]]

\* format_date_with_predicate(df, "customDimensions.value", current, target, "index", key_value)
FormatDateWithPredicateArray(array, current, target, key_value) ==
    [i \in 1..Len(array) |->
        IF array[i].index = key_value
        THEN [array[i] EXCEPT !.value = Reformat(array[i].value, current, target)]
        ELSE array[i]]

\* format_date(df, "customDimensions.value", current, target)
FormatDateArray(array, current, target) ==
    [i \in 1..Len(array) |->
        [array[i] EXCEPT !.value = Reformat(array[i].value, current, target)]]

InitDate ==
    /\ pc = "start"
    /\ custom_dimensions \in Arrays
    /\ predicate_value \in {2, 3}
    /\ current_date_format \in CurrentFormats
    /\ transformed = <<>>
    /\ schema = {}
    /\ whitelist_columns = <<>>
    /\ df = [fields |-> {}, rows |-> "all"]
    /\ Fresh
    /\ reinvoked = FALSE
    /\ prev = NoPrev
    /\ total_drops = 0

whitelistVars ==
    <<schema, whitelist_columns, only_existing_columns, roots, res,
      whitelist_parent_fields, fields_to_drop, to_drop, idx, drop_calls,
      force_calls, df, log, reinvoked, prev, total_drops>>

FormatDateWithPredicate ==
    /\ pc = "start"
    /\ transformed' = FormatDateWithPredicateArray(custom_dimensions,
                          current_date_format, TargetFormat, predicate_value)
    /\ pc' = "done_predicate"
    /\ UNCHANGED <<whitelistVars, custom_dimensions, predicate_value,
                   current_date_format>>

FormatDate ==
    /\ pc = "start"
    /\ transformed' = FormatDateArray(custom_dimensions, current_date_format,
                                      TargetFormat)
    /\ pc' = "done_all"
    /\ UNCHANGED <<whitelistVars, custom_dimensions, predicate_value,
                   current_date_format>>

NextDate ==
    \/ FormatDateWithPredicate
    \/ FormatDate

SpecDate == InitDate /\ [][NextDate]_vars

----------------------------------------------------------------------------
(* Properties of whitelist / WhitelistProcessor, checked under Spec *)

\* process has returned what drop_fields gave it: the keep-roots and the
\* drop-set of find_fields_to_drop are those of this invocation
DropSetComputed == pc = "done" /\ df.rows = "all"

\* the requested paths that exist in the schema
ExistingRequested == Range(whitelist_columns) \cap FlattenSchema(schema)

\* p is q or a dotted-path ancestor of q
IsAncestorOrSelf(p, q) == p = q \/ IsPrefix(p \o Dot, q)

\* the request without the paths that are not in the schema
WithoutMissing(s, columns) ==
    LET F[i \in 0..Len(columns)] ==
            IF i = 0 THEN <<>>
            ELSE IF columns[i] \in FlattenSchema(s)
                 THEN Append(F[i - 1], columns[i])
                 ELSE F[i - 1]
    IN  F[Len(columns)]

\* the request with every repeated path reduced to its first occurrence
FirstOccurrences(columns) ==
    LET first == {i \in 1..Len(columns) :
                     \A j \in 1..Len(columns) : columns[j] = columns[i] => i <= j}
        F[i \in 0..Len(columns)] ==
            IF i = 0 THEN <<>>
            ELSE IF i \in first THEN Append(F[i - 1], columns[i]) ELSE F[i - 1]
    IN  F[Len(columns)]

AB == Dotted(<<A, B>>)
ABC == Dotted(<<A, B, C>>)
AC == Dotted(<<A, C>>)
BC == Dotted(<<B, C>>)

\* C1: the drop-set holds no flattened path that is a whitelisted path existing
\* in the schema or a dotted-path ancestor of one; for {a: {b, c}, d} and
\* [a.b, d] the drop-set is exactly {a.c}.
C1_DropSetSparesWhitelistedAndAncestors ==
    DropSetComputed =>
        /\ \A f \in fields_to_drop : \A w \in ExistingRequested :
              ~IsAncestorOrSelf(f, w)
        /\ (schema = ExampleSchema /\ whitelist_columns = <<AB, D>>)
              => fields_to_drop = {AC}

\* C2: the drop-set and the flattened paths that have a keep-root as a textual
\* prefix are disjoint and together make up the flattened path set.
C2_DropSetAndPrefixKeptPartition ==
    DropSetComputed =>
        LET kept == {f \in FlattenSchema(schema) :
                        \E r \in whitelist_parent_fields : IsPrefix(r, f)}
        IN  /\ fields_to_drop \cap kept = {}
            /\ fields_to_drop \cup kept = FlattenSchema(schema)

\* C3: process returns the zero-row result with the original schema, with no
\* drop and no materialize, exactly when no requested path is in the flattened
\* schema; with at least one such path the short-circuit is not taken.
C3_EmptySelectionShortCircuit ==
    /\ pc \in {"replace", "drop"} => ExistingRequested # {}
    /\ pc = "done" =>
          /\ (df.rows = "zero") <=> (ExistingRequested = {})
          /\ log.no_fields <=> (ExistingRequested = {})
          /\ df.rows = "zero" =>
                /\ df.fields = FlattenSchema(schema)
                /\ drop_calls = NoCalls
                /\ force_calls = {}
                /\ total_drops = 0

\* C3 witness: a non-empty request, none of whose paths exists, came back empty
C3_Witness ==
    /\ pc = "done"
    /\ df.rows = "zero"
    /\ whitelist_columns # <<>>
    /\ log.no_fields

\* C4: whenever a requested path p is a proper textual prefix of a requested
\* path q, q is not a keep-root, some keep-root is a prefix of q and the root
\* warning is logged; [a.b, a.b.c] gives exactly {a.b}; with no such pair there
\* is no warning.
C4_RootCollapseKeepsParent ==
    DropSetComputed =>
        LET requested == Range(only_existing_columns)
            pairs == {pq \in requested \X requested : IsProperPrefix(pq[1], pq[2])}
        IN  /\ \A pq \in pairs :
                  /\ pq[2] \notin whitelist_parent_fields
                  /\ \E r \in whitelist_parent_fields : IsPrefix(r, pq[2])
                  /\ log.root_elements # {}
            /\ pairs = {} => log.root_elements = {}
            /\ only_existing_columns = <<AB, ABC>> => whitelist_parent_fields = {AB}

\* C5: a requested path that is not in the schema is logged as not found and
\* changes nothing: the drop-set is the one of the request without such paths,
\* and no such path becomes a root element or a keep-root.
C5_MissingPathsAreIgnored ==
    DropSetComputed =>
        /\ log.not_found = Range(whitelist_columns) \ FlattenSchema(schema)
        /\ fields_to_drop \in
              FindFieldsToDropOutcomes(schema, WithoutMissing(schema, whitelist_columns))
        /\ FindFieldsToDropOutcomes(schema, whitelist_columns) =
              FindFieldsToDropOutcomes(schema, WithoutMissing(schema, whitelist_columns))
        /\ Range(only_existing_columns) \subseteq FlattenSchema(schema)
        /\ log.root_elements \subseteq FlattenSchema(schema)
        /\ whitelist_parent_fields \subseteq FlattenSchema(schema)

\* C5 witness: a request with a path that exists and one that does not went through
C5_Witness ==
    /\ pc = "done"
    /\ df.rows = "all"
    /\ log.not_found # {}
    /\ fields_to_drop # {}

\* C7: a request gives the keep-roots and the drop-set of the same request with
\* every repeated path reduced to its first occurrence, and a path is a root
\* element only if another requested path has it as a proper prefix.
C7_DuplicatesCollapse ==
    DropSetComputed =>
        /\ whitelist_parent_fields \in
              WhitelistParentFieldsOutcomes(schema, FirstOccurrences(whitelist_columns))
        /\ fields_to_drop \in
              FindFieldsToDropOutcomes(schema, FirstOccurrences(whitelist_columns))
        /\ WhitelistParentFieldsOutcomes(schema, whitelist_columns) =
              WhitelistParentFieldsOutcomes(schema, FirstOccurrences(whitelist_columns))
        /\ FindFieldsToDropOutcomes(schema, whitelist_columns) =
              FindFieldsToDropOutcomes(schema, FirstOccurrences(whitelist_columns))
        /\ \A r \in log.root_elements :
              \E q \in Range(whitelist_columns) : IsProperPrefix(r, q)

\* C7 witness: an existing path was requested twice and no root was reported
C7_Witness ==
    /\ pc = "done"
    /\ df.rows = "all"
    /\ \E i, j \in 1..Len(whitelist_columns) :
          /\ i < j
          /\ whitelist_columns[i] = whitelist_columns[j]
          /\ whitelist_columns[i] \in FlattenSchema(schema)
    /\ log.root_elements = {}

\* C9: every requested path that has no other requested path as a proper
\* textual prefix is a keep-root.
C9_OnlyDescendantsOfRootsAreRemoved ==
    DropSetComputed =>
        LET requested == Range(only_existing_columns)
        IN  \A f \in requested :
                (\A p \in requested : ~IsProperPrefix(p, f))
                    => f \in whitelist_parent_fields

\* C10: a second invocation with the same schema and request ends with the
\* keep-roots, the drop-set and the kind of result of the first, whatever the
\* order in which either invocation visits the root elements.
C10_SelectionIsDeterministic ==
    (reinvoked /\ DropSetComputed) =>
        /\ whitelist_parent_fields = prev.keep
        /\ fields_to_drop = prev.drop
        /\ df.rows = prev.rows

\* C10 witness: a second invocation over two root elements, one inside the other
C10_Witness ==
    /\ reinvoked
    /\ pc = "done"
    /\ df.rows = "all"
    /\ \E r1, r2 \in log.root_elements : r1 # r2 /\ StrIn(r1, r2)

----------------------------------------------------------------------------
(* Properties of drop_fields, checked under SpecDrop *)

\* C6: in one invocation drop is called once for each path of the drop-set and
\* for no other, and force_calculation runs right after the k-th drop exactly
\* for the k that are positive multiples of 10, k counted from 1 in every
\* invocation.
C6_DropOncePerPathFlushEveryTen ==
    /\ DOMAIN drop_calls = fields_to_drop \ to_drop
    /\ \A p \in DOMAIN drop_calls : drop_calls[p] = 1
    /\ idx = Cardinality(fields_to_drop \ to_drop)
    /\ force_calls = {k \in 1..idx : k % 10 = 0}
    /\ pc = "done" =>
          /\ DOMAIN drop_calls = fields_to_drop
          /\ Cardinality(force_calls) = Cardinality(fields_to_drop) \div 10

\* C6 witness: a second invocation has dropped ten paths or more, after a first
\* one whose drops would have shifted the multiples of ten
C6_Witness ==
    /\ reinvoked
    /\ pc = "done"
    /\ idx > 10
    /\ force_calls = {10}
    /\ (total_drops - idx) % 10 # 0

----------------------------------------------------------------------------
(* Properties of format_date_with_predicate, checked under SpecDate *)

\* the year and month of a date string, read under the current format
YearMonth(value, format) ==
    IF format = <<"y", "d", "M">> THEN <<value[1], value[3]>>
    ELSE <<value[1], value[2]>>

\* C8: format_date_with_predicate rewrites the value of exactly the elements
\* whose index equals the predicate value and leaves every other value as it
\* was; the number and order of the elements and their index do not change.
C8_OnlyMatchingElementsReformatted ==
    pc = "done_predicate" =>
        /\ Len(transformed) = Len(custom_dimensions)
        /\ \A i \in 1..Len(custom_dimensions) :
              LET before == custom_dimensions[i]
                  after == transformed[i]
              IN  /\ after.index = before.index
                  /\ before.index # predicate_value => after.value = before.value
                  /\ (before.index = predicate_value
                        /\ Parses(before.value, current_date_format))
                        => after.value = YearMonth(before.value, current_date_format)

\* C8 witness: the test's call on the fixture gave the test's expected array
C8_Witness ==
    /\ pc = "done_predicate"
    /\ custom_dimensions = Fixture
    /\ current_date_format = <<"y", "d", "M">>
    /\ predicate_value = 2
    /\ transformed =
         << [index |-> 2, value |-> <<2021, 1>>],
            [index |-> 3, value |-> <<2019, 15, 2>>],
            [index |-> 4, value |-> <<2021, 15, 2>>] >>

====
